---- MODULE Spec2Model ----
(***************************************************************************)
(* qbit_manage.py: the run orchestrator and scheduling engine.             *)
(*                                                                         *)
(* The process is one thread of control (pc) plus an asynchronous signal   *)
(* handlers that sets killer.kill_now.  Time is in seconds.  The job table  *)
(* of the `schedule` library is the sequence jobs.                         *)
(***************************************************************************)
EXTENDS Integers, Sequences, FiniteSets, TLC

(***************************************************************************)
(* Bounds of the model.                                                    *)
(***************************************************************************)
\* behaviours are explored up to this clock value (seconds)
MaxTime == 200
\* at most this many items (torrents, files) are affected in one behaviour
MaxItems == 2
\* every run takes RunSecs seconds
RunSecs == 20
\* the clock advances in steps of at most TimeStep seconds while blocked
TimeStep == 60

(***************************************************************************)
(* Program constants.                                                      *)
(***************************************************************************)
\* time.sleep(60) of the polling loop
PollTick == 60
\* timedelta(minutes=...), schedule.every(...).minutes
SecsPerMinute == 60

(***************************************************************************)
(* Raw command-line strings are sequences of one-character strings.        *)
(***************************************************************************)
Digits == <<"0", "1", "2", "3", "4", "5", "6", "7", "8", "9">>

IsDigit(c) == \E i \in 1..10 : Digits[i] = c

DigitVal(c) == (CHOOSE i \in 1..10 : Digits[i] = c) - 1

RECURSIVE LStrip(_)
LStrip(s) == IF s # <<>> /\ Head(s) = " " THEN LStrip(Tail(s)) ELSE s

RECURSIVE RStrip(_)
RStrip(s) ==
  IF s # <<>> /\ s[Len(s)] = " " THEN RStrip(SubSeq(s, 1, Len(s) - 1)) ELSE s

Strip(s) == RStrip(LStrip(s))

HasSign(s) == s # <<>> /\ Head(s) \in {"-", "+"}

Unsigned(s) == IF HasSign(s) THEN Tail(s) ELSE s

\* int(str) succeeds: optional blanks, an optional sign, one or more digits
IsIntLiteral(s) ==
  LET u == Unsigned(Strip(s))
  IN  u # <<>> /\ \A i \in 1..Len(u) : IsDigit(u[i])

RECURSIVE DigitsValue(_)
DigitsValue(u) ==
  IF u = <<>> THEN 0
  ELSE 10 * DigitsValue(SubSeq(u, 1, Len(u) - 1)) + DigitVal(u[Len(u)])

\* the value int(str) returns
IntValue(s) ==
  LET t == Strip(s)
      v == DigitsValue(Unsigned(t))
  IN  IF HasSign(t) /\ Head(t) = "-" THEN 0 - v ELSE v

\* str(int)
RECURSIVE NatStr(_)
NatStr(n) ==
  IF n < 10 THEN <<Digits[n + 1]>>
  ELSE NatStr(n \div 10) \o <<Digits[(n % 10) + 1]>>

IntStr(n) == IF n < 0 THEN <<"-">> \o NatStr(0 - n) ELSE NatStr(n)

(***************************************************************************)
(* croniter: syntax and next occurrence of a five-field expression.        *)
(***************************************************************************)
\* str.split(): the maximal blank-free pieces
RECURSIVE SplitFields(_, _)
SplitFields(s, cur) ==
  IF s = <<>> THEN (IF cur = <<>> THEN <<>> ELSE <<cur>>)
  ELSE IF Head(s) = " "
       THEN (IF cur = <<>> THEN <<>> ELSE <<cur>>) \o SplitFields(Tail(s), <<>>)
       ELSE SplitFields(Tail(s), Append(cur, Head(s)))

CronFields(s) == SplitFields(s, <<>>)

IsNumber(f) == f # <<>> /\ \A i \in 1..Len(f) : IsDigit(f[i])

\* the value ranges of minute, hour, day of month, month, day of week
CronLow == <<0, 0, 1, 1, 0>>
CronHigh == <<59, 23, 31, 12, 7>>

\* one field: "*", "*/n" with n >= 1, or a number in the field's range
ValidCronField(f, k) ==
  \/ f = <<"*">>
  \/ /\ Len(f) >= 3
     /\ SubSeq(f, 1, 2) = <<"*", "/">>
     /\ IsNumber(SubSeq(f, 3, Len(f)))
     /\ DigitsValue(SubSeq(f, 3, Len(f))) >= 1
  \/ /\ IsNumber(f)
     /\ DigitsValue(f) >= CronLow[k]
     /\ DigitsValue(f) <= CronHigh[k]

\* croniter(expr) constructs without ValueError/KeyError
CronSyntaxOK(s) ==
  LET fs == CronFields(s)
  IN  Len(fs) = 5 /\ \A k \in 1..5 : ValidCronField(fs[k], k)

\* the minute of the hour matches the minute field
MinuteMatches(f, m) ==
  IF f = <<"*">> THEN TRUE
  ELSE IF IsNumber(f) THEN m = DigitsValue(f)
  ELSE m % DigitsValue(SubSeq(f, 3, Len(f))) = 0

\* days 30 and 31 of February never occur: get_next finds no date
NoSuchDate(fs) ==
  /\ IsNumber(fs[3]) /\ DigitsValue(fs[3]) >= 30
  /\ IsNumber(fs[4]) /\ DigitsValue(fs[4]) = 2

\* croniter(expr, base).get_next raises
CronNextFails(s) == ~CronSyntaxOK(s) \/ NoSuchDate(CronFields(s))

\* croniter(expr, base).get_next: the first whole minute strictly after base
\* whose minute matches (hour, day, month and weekday unrestricted; the clock
\* starts at the top of an hour and stays within it)
CronNext(s, base) ==
  LET fs == CronFields(s)
      first == (base \div SecsPerMinute) + 1
  IN  SecsPerMinute *
        (CHOOSE m \in first..(first + 60) :
           /\ MinuteMatches(fs[1], m % 60)
           /\ \A n \in first..(m - 1) : ~MinuteMatches(fs[1], n % 60))

(***************************************************************************)
(* The inputs explored.                                                    *)
(***************************************************************************)
S_1 == <<"1">>
S_2 == <<"2">>
S_0 == <<"0">>
S_neg == <<"-", "1">>
S_text == <<"a", "b", "c">>
S_every_minute == <<"*", " ", "*", " ", "*", " ", "*", " ", "*">>
S_every_2nd == <<"*", "/", "2", " ", "*", " ", "*", " ", "*", " ", "*">>
S_feb_30 == <<"0", " ", "0", " ", "3", "0", " ", "2", " ", "*">>
S_three_fields == <<"*", " ", "*", " ", "*">>

\* values of --schedule
RawSchedules ==
  {S_1, S_2, S_0, S_neg, S_text, S_every_minute, S_every_2nd, S_feb_30,
   S_three_fields}

D_0 == <<"0">>
D_90 == <<"9", "0">>
D_neg == <<"-", "5">>

\* values of --startup-delay
RawDelays == {D_0, D_90, D_neg, S_text}

\* the commands a configuration enables (cfg.commands)
Commands ==
  {"cat_update", "tag_update", "rem_unregistered", "tag_tracker_error",
   "recheck", "tag_nohardlinks", "share_limits", "rem_orphaned",
   "skip_cleanup"}

\* the command sets explored together with the scheduler and several configs
FewCommandSets ==
  {{"tag_update", "share_limits"}, {"rem_unregistered", "skip_cleanup"}}

\* the ConfigSets explored
ConfigSets == {<<1>>, <<1, 2>>, <<1, 2, 3>>}

\* the configuration files explored for n entries: the first enables either
\* command set, the others the second one
Disks(n) ==
  {d \in [1..n -> FewCommandSets] :
     \A i \in 2..n : d[i] = {"rem_unregistered", "skip_cleanup"}}

(***************************************************************************)
(* RunStats (the module-level dict stats).                                 *)
(***************************************************************************)
StatKeys ==
  {"added", "deleted", "deleted_contents", "resumed", "rechecked",
   "orphaned", "recycle_emptied", "orphaned_emptied", "tagged",
   "categorized", "rem_unreg", "tagged_tracker_error",
   "untagged_tracker_error", "tagged_noHL", "untagged_noHL",
   "updated_share_limits", "cleaned_share_limits"}

ZeroStats == [k \in StatKeys |-> 0]

\* st[k] += n for every k |-> n of the function add
Merge(st, add) ==
  [k \in StatKeys |-> IF k \in DOMAIN add THEN st[k] + add[k] ELSE st[k]]

\* the results a stage may return: k counts that sum to at most n
Results(n, k) ==
  {r \in [1..k -> 0..n] :
     LET RECURSIVE Sum(_)
         Sum(i) == IF i = 0 THEN 0 ELSE r[i] + Sum(i - 1)
     IN  Sum(k) <= n}

Total(r) ==
  LET RECURSIVE Sum(_)
      Sum(i) == IF i = 0 THEN 0 ELSE r[i] + Sum(i - 1)
  IN  Sum(Len(r))

NoConfig == [loaded |-> FALSE, commands |-> {}]

NoSchedule == [isInt |-> FALSE, n |-> 0, s |-> <<>>]

VARIABLES
  \* command line and environment
  run,            \* args.run
  rawSch,         \* args.schedule as given
  rawDelay,       \* args.startupDelay as given
  config_files,   \* the ConfigSet
  disk,           \* config id -> the commands its file enables
  \* module-level state
  sch,            \* the schedule after validation
  startupDelay,   \* the startup delay after validation
  stats,          \* the global stats dict
  kill_now,       \* killer.kill_now
  jobs,           \* the job table of the schedule library
  now,            \* the clock, in seconds
  \* the thread of control
  pc,             \* where the process is
  ret,            \* where start_loop returns to
  exitCode,       \* -1 while the process is alive
  wake,           \* when the current time.sleep ends
  runnable,       \* run_pending: the due jobs still to run
  next_run_time,  \* __main__'s next_run_time
  first_run,      \* start_loop's argument
  cfgIdx,         \* start_loop's position in config_files
  handlers,       \* the config log handlers that are attached
  \* start()'s locals
  cfg, stats_summary, start_time, end_time, next_run,
  \* what has happened (history)
  items,          \* items the stages may still report in this pass
  calls,          \* the stages invoked in the current run, in order
  activeRuns,     \* executions of start() begun and not finished
  passes,         \* calls of start_loop so far
  armed,          \* a rearm has installed a job
  passLog,        \* one record per start() finished in the current pass
  hook,           \* the last end_time_hooks call of the current run
  req             \* the termination request: where it arrived, when (if
                  \* during the poll sleep), whether a job was due and how
                  \* many passes had begun (if before a due-job check or
                  \* during the startup delay), and what has happened since

vars ==
  <<run, rawSch, rawDelay, config_files, disk, sch, startupDelay, stats,
    kill_now, jobs, now, pc, ret, exitCode, wake, runnable, next_run_time,
    first_run, cfgIdx, handlers, cfg, stats_summary, start_time, end_time,
    next_run, items, calls, activeRuns, passes, armed, passLog, hook, req>>

inputVars == <<run, rawSch, rawDelay, config_files, disk>>

runVars == <<cfg, stats_summary, start_time, end_time, next_run>>

NoHook == [called |-> FALSE]

NoReq ==
  [made |-> FALSE, at |-> "none", time |-> 0, due |-> FALSE, passes |-> 0,
   ran |-> FALSE, rearmed |-> FALSE]

InitRest ==
  /\ sch = NoSchedule
  /\ startupDelay = 0
  /\ stats = ZeroStats
  /\ kill_now = FALSE
  /\ jobs = <<>>
  /\ now = 0
  /\ pc = "validate_schedule"
  /\ ret = "none"
  /\ exitCode = -1
  /\ wake = 0
  /\ runnable = <<>>
  /\ next_run_time = 0
  /\ first_run = FALSE
  /\ cfgIdx = 0
  /\ handlers = {}
  /\ cfg = NoConfig
  /\ stats_summary = <<>>
  /\ start_time = 0
  /\ end_time = -1
  /\ next_run = -1
  /\ items = MaxItems
  /\ calls = <<>>
  /\ activeRuns = 0
  /\ passes = 0
  /\ armed = FALSE
  /\ passLog = <<>>
  /\ hook = NoHook
  /\ req = NoReq

\* one configuration, run once: every set of enabled commands
InitPipeline ==
  /\ run = TRUE
  /\ rawSch = S_1
  /\ rawDelay = D_0
  /\ config_files = <<1>>
  /\ disk \in [{1} -> SUBSET Commands]
  /\ InitRest

\* scheduled mode: every schedule, one or two configurations
InitScheduler ==
  /\ run = FALSE
  /\ rawSch \in RawSchedules
  /\ rawDelay = D_0
  /\ config_files \in {<<1>>, <<1, 2>>}
  /\ disk \in Disks(Len(config_files))
  /\ InitRest

\* scheduled mode: three configurations
InitThree ==
  /\ run = FALSE
  /\ rawSch \in {S_1, S_every_2nd}
  /\ rawDelay = D_0
  /\ config_files = <<1, 2, 3>>
  /\ disk \in [1..3 -> {{"rem_unregistered", "skip_cleanup"}}]
  /\ InitRest

\* run-once mode: every ConfigSet
InitRunOnce ==
  /\ run = TRUE
  /\ rawSch \in RawSchedules \ {S_2, S_0, S_neg, S_every_2nd}
  /\ rawDelay = D_0
  /\ config_files \in ConfigSets
  /\ disk \in Disks(Len(config_files))
  /\ InitRest

\* every startup delay, with an interval and with a cron schedule
InitDelay ==
  /\ run = FALSE
  /\ rawSch \in {S_1, S_every_minute}
  /\ rawDelay \in RawDelays
  /\ config_files = <<1>>
  /\ disk \in [{1} -> FewCommandSets]
  /\ InitRest

Init == InitScheduler \/ InitThree \/ InitRunOnce \/ InitDelay

(***************************************************************************)
(* Startup: validation of --schedule and --startup-delay (lines 350-363).  *)
(***************************************************************************)
Alive == exitCode = -1

\* sys.exit(code), or the interpreter ending on an uncaught exception
Exit(code) == pc' = "exited" /\ exitCode' = code

\* str(sch)
SchStr(sc) == IF sc.isInt THEN IntStr(sc.n) ELSE sc.s

is_valid_cron_syntax(sc) == CronSyntaxOK(SchStr(sc))

ValidateSchedule ==
  /\ pc = "validate_schedule"
  /\ IF IsIntLiteral(rawSch)
     THEN /\ sch' = [isInt |-> TRUE, n |-> IntValue(rawSch), s |-> <<>>]
          /\ pc' = "validate_delay"
          /\ UNCHANGED exitCode
     ELSE IF is_valid_cron_syntax([isInt |-> FALSE, n |-> 0, s |-> rawSch])
     THEN /\ sch' = [isInt |-> FALSE, n |-> 0, s |-> rawSch]
          /\ pc' = "validate_delay"
          /\ UNCHANGED exitCode
     ELSE /\ Exit(1)
          /\ UNCHANGED sch
  /\ UNCHANGED <<inputVars, runVars, startupDelay, stats, kill_now, jobs, now,
                 ret, wake, runnable, next_run_time, first_run, cfgIdx,
                 handlers, items, calls, activeRuns, armed, passLog, hook, req, passes>>

ValidateStartupDelay ==
  /\ pc = "validate_delay"
  /\ IF IsIntLiteral(rawDelay)
     THEN /\ startupDelay' = IntValue(rawDelay)
          /\ pc' = "main"
          /\ UNCHANGED exitCode
     ELSE /\ Exit(1)
          /\ UNCHANGED startupDelay
  /\ UNCHANGED <<inputVars, runVars, sch, stats, kill_now, jobs, now, ret,
                 wake, runnable, next_run_time, first_run, cfgIdx, handlers,
                 items, calls, activeRuns, armed, passLog, hook, req, passes>>

(***************************************************************************)
(* The schedule library's job table and the two rearm functions.           *)
(***************************************************************************)
\* a rearm that forgets schedule.clear()
Clear_Forgotten(js) == js

\* schedule.clear()
Clear(js) == <<>>

\* schedule.every(secs).seconds.do(start_loop) at time t
Install(js, secs, t) ==
  Append(js, [due |-> t + secs, period |-> secs, running |-> FALSE])

\* a schedule_from_cron that logs the failure and returns
schedule_from_cron_Swallowed(expr, t) ==
  IF CronNextFails(expr)
  THEN [jobs |-> Clear(jobs), next_run_time |-> t, failed |-> FALSE]
  ELSE LET next == CronNext(expr, t)
       IN  [jobs |-> Install(Clear(jobs), next - t, t),
            next_run_time |-> next,
            failed |-> FALSE]

\* schedule_from_cron(cron_expression) at time t: the job table afterwards,
\* the value returned, and whether sys.exit(1) was reached
schedule_from_cron(expr, t) ==
  IF CronNextFails(expr)
  THEN [jobs |-> Clear(jobs), next_run_time |-> 0, failed |-> TRUE]
  ELSE LET next == CronNext(expr, t)
       IN  [jobs |-> Install(Clear(jobs), next - t, t),
            next_run_time |-> next,
            failed |-> FALSE]

\* a schedule_every_x_minutes whose job counts seconds instead of minutes
schedule_every_x_seconds(min, t) ==
  [jobs |-> Install(Clear(jobs), min, t),
   next_run_time |-> t + min * SecsPerMinute,
   failed |-> FALSE]

\* schedule_every_x_minutes(min) at time t
schedule_every_x_minutes(min, t) ==
  [jobs |-> Install(Clear(jobs), min * SecsPerMinute, t),
   next_run_time |-> t + min * SecsPerMinute,
   failed |-> FALSE]

\* the rearm of the current mode
Rearm(t) ==
  IF is_valid_cron_syntax(sch)
  THEN schedule_from_cron(sch.s, t)
  ELSE schedule_every_x_minutes(sch.n, t)

\* job.should_run
ShouldRun(job) == now >= job.due

\* sorted(job for job in self.jobs if job.should_run): ordered by next_run
RECURSIVE SortByDue(_)
SortByDue(js) ==
  IF js = <<>> THEN <<>>
  ELSE LET i == CHOOSE i \in 1..Len(js) :
                  \A j \in 1..Len(js) :
                    js[i].due < js[j].due \/ (js[i].due = js[j].due /\ i <= j)
       IN  <<js[i]>> \o
           SortByDue(SubSeq(js, 1, i - 1) \o SubSeq(js, i + 1, Len(js)))

RunnableJobs == SortByDue(SelectSeq(jobs, ShouldRun))

(***************************************************************************)
(* __main__ (lines 654-689).                                               *)
(***************************************************************************)
\* the call start_loop(first), returning to position r
CallStartLoop(first, r) ==
  /\ pc' = "start_loop"
  /\ ret' = r
  /\ first_run' = first
  /\ cfgIdx' = 0
  /\ passLog' = <<>>
  /\ passes' = passes + 1

MainRunOnce ==
  /\ pc = "main"
  /\ run
  /\ CallStartLoop(TRUE, "script_end")
  /\ UNCHANGED <<inputVars, runVars, sch, startupDelay, stats, kill_now, jobs,
                 now, exitCode, wake, runnable, next_run_time, handlers, items,
                 calls, activeRuns, armed, hook, req>>

\* a cron branch that also calls start_loop(True)
MainCron_Immediate ==
  /\ pc = "main"
  /\ ~run
  /\ is_valid_cron_syntax(sch)
  /\ LET r == schedule_from_cron(sch.s, now)
     IN  /\ jobs' = r.jobs
         /\ IF r.failed
            THEN /\ Exit(1)
                 /\ UNCHANGED <<next_run_time, armed, ret, first_run, cfgIdx,
                                passLog, passes>>
            ELSE /\ next_run_time' = r.next_run_time
                 /\ armed' = TRUE
                 /\ CallStartLoop(TRUE, "loop_head")
                 /\ UNCHANGED exitCode
  /\ UNCHANGED <<inputVars, runVars, sch, startupDelay, stats, kill_now, now,
                 wake, runnable, handlers, items, calls, activeRuns, hook, req>>

MainCron ==
  /\ pc = "main"
  /\ ~run
  /\ is_valid_cron_syntax(sch)
  /\ LET r == schedule_from_cron(sch.s, now)
     IN  /\ jobs' = r.jobs
         /\ IF r.failed
            THEN Exit(1) /\ UNCHANGED <<next_run_time, armed>>
            ELSE /\ next_run_time' = r.next_run_time
                 /\ armed' = TRUE
                 /\ pc' = "loop_head"
                 /\ UNCHANGED exitCode
  /\ UNCHANGED <<inputVars, runVars, sch, startupDelay, stats, kill_now, now,
                 ret, wake, runnable, first_run, cfgIdx, handlers, items,
                 calls, activeRuns, passLog, hook, req, passes>>

MainInterval ==
  /\ pc = "main"
  /\ ~run
  /\ ~is_valid_cron_syntax(sch)
  /\ LET r == schedule_every_x_minutes(sch.n, now)
     IN  /\ jobs' = r.jobs
         /\ next_run_time' = r.next_run_time
         /\ armed' = TRUE
  /\ IF startupDelay < 0
     THEN \* time.sleep raises ValueError, which nothing catches
          /\ Exit(1)
          /\ UNCHANGED <<wake, ret, first_run, cfgIdx, passLog, passes>>
     ELSE IF startupDelay # 0
     THEN /\ pc' = "startup_delay"
          /\ wake' = now + startupDelay
          /\ UNCHANGED <<exitCode, ret, first_run, cfgIdx, passLog, passes>>
     ELSE /\ CallStartLoop(TRUE, "loop_head")
          /\ UNCHANGED <<exitCode, wake>>
  /\ UNCHANGED <<inputVars, runVars, sch, startupDelay, stats, kill_now, now,
                 runnable, handlers, items, calls, activeRuns, hook, req>>

\* a startup delay that may be cut short
StartupDelayEnd_Early ==
  /\ pc = "startup_delay"
  /\ CallStartLoop(TRUE, "loop_head")
  /\ UNCHANGED <<inputVars, runVars, sch, startupDelay, stats, kill_now, jobs,
                 now, exitCode, wake, runnable, next_run_time, handlers, items,
                 calls, activeRuns, armed, hook, req>>

\* time.sleep(startupDelay) returns
StartupDelayEnd ==
  /\ pc = "startup_delay"
  /\ now >= wake
  /\ CallStartLoop(TRUE, "loop_head")
  /\ UNCHANGED <<inputVars, runVars, sch, startupDelay, stats, kill_now, jobs,
                 now, exitCode, wake, runnable, next_run_time, handlers, items,
                 calls, activeRuns, armed, hook, req>>

\* a loop that never looks at killer.kill_now
LoopHead_Unchecked ==
  /\ pc = "loop_head"
  /\ pc' = "run_pending"
  /\ UNCHANGED <<inputVars, runVars, sch, startupDelay, stats, kill_now, jobs,
                 now, ret, exitCode, wake, runnable, next_run_time, first_run,
                 cfgIdx, handlers, items, calls, activeRuns, armed, passLog,
                 hook, req, passes>>

\* while not killer.kill_now
LoopHead ==
  /\ pc = "loop_head"
  /\ pc' = IF kill_now THEN "end" ELSE "run_pending"
  /\ UNCHANGED <<inputVars, runVars, sch, startupDelay, stats, kill_now, jobs,
                 now, ret, exitCode, wake, runnable, next_run_time, first_run,
                 cfgIdx, handlers, items, calls, activeRuns, armed, passLog,
                 hook, req, passes>>

\* a run_pending that finds no job due
RunPending_Never ==
  /\ pc = "run_pending"
  /\ runnable' = <<>>
  /\ pc' = "run_jobs"
  /\ UNCHANGED <<inputVars, runVars, sch, startupDelay, stats, kill_now, jobs,
                 now, ret, exitCode, wake, next_run_time, first_run, cfgIdx,
                 handlers, items, calls, activeRuns, armed, passLog, hook, req,
                 passes>>

\* a run_pending that runs no job once killer.kill_now is set
RunPending_FlagChecked ==
  /\ pc = "run_pending"
  /\ runnable' = IF kill_now THEN <<>> ELSE RunnableJobs
  /\ pc' = "run_jobs"
  /\ UNCHANGED <<inputVars, runVars, sch, startupDelay, stats, kill_now, jobs,
                 now, ret, exitCode, wake, next_run_time, first_run, cfgIdx,
                 handlers, items, calls, activeRuns, armed, passLog, hook, req,
                 passes>>

\* schedule.run_pending(): the due jobs are collected first
RunPending ==
  /\ pc = "run_pending"
  /\ runnable' = RunnableJobs
  /\ pc' = "run_jobs"
  /\ UNCHANGED <<inputVars, runVars, sch, startupDelay, stats, kill_now, jobs,
                 now, ret, exitCode, wake, next_run_time, first_run, cfgIdx,
                 handlers, items, calls, activeRuns, armed, passLog, hook, req, passes>>

\* job.run(): the job function start_loop is called
RunJob ==
  /\ pc = "run_jobs"
  /\ runnable # <<>>
  /\ runnable' = Tail(runnable)
  /\ jobs' = [i \in 1..Len(jobs) |->
                IF jobs[i] = Head(runnable)
                THEN [jobs[i] EXCEPT !.running = TRUE]
                ELSE jobs[i]]
  /\ CallStartLoop(FALSE, "job_return")
  /\ UNCHANGED <<inputVars, runVars, sch, startupDelay, stats, kill_now, now,
                 exitCode, wake, next_run_time, handlers, items, calls,
                 activeRuns, armed, hook, req>>

\* job.run() after the job function: the job that ran reschedules itself,
\* which changes the table only if the job is still in it
JobReturn ==
  /\ pc = "job_return"
  /\ jobs' = [i \in 1..Len(jobs) |->
                IF jobs[i].running
                THEN [due |-> now + jobs[i].period,
                      period |-> jobs[i].period,
                      running |-> FALSE]
                ELSE jobs[i]]
  /\ pc' = "run_jobs"
  /\ UNCHANGED <<inputVars, runVars, sch, startupDelay, stats, kill_now, now,
                 ret, exitCode, wake, runnable, next_run_time, first_run,
                 cfgIdx, handlers, items, calls, activeRuns, armed, passLog,
                 hook, req, passes>>

\* run_pending returns; time.sleep(60) begins
PollSleep ==
  /\ pc = "run_jobs"
  /\ runnable = <<>>
  /\ pc' = "sleep"
  /\ wake' = now + PollTick
  /\ UNCHANGED <<inputVars, runVars, sch, startupDelay, stats, kill_now, jobs,
                 now, ret, exitCode, runnable, next_run_time, first_run,
                 cfgIdx, handlers, items, calls, activeRuns, armed, passLog,
                 hook, req, passes>>

\* time.sleep(60) returns
PollWake ==
  /\ pc = "sleep"
  /\ now >= wake
  /\ pc' = "loop_head"
  /\ UNCHANGED <<inputVars, runVars, sch, startupDelay, stats, kill_now, jobs,
                 now, ret, exitCode, wake, runnable, next_run_time, first_run,
                 cfgIdx, handlers, items, calls, activeRuns, armed, passLog,
                 hook, req, passes>>

\* end(): sys.exit(0)
End ==
  /\ pc = "end"
  /\ Exit(0)
  /\ UNCHANGED <<inputVars, runVars, sch, startupDelay, stats, kill_now, jobs,
                 now, ret, wake, runnable, next_run_time, first_run, cfgIdx,
                 handlers, items, calls, activeRuns, armed, passLog, hook, req, passes>>

\* run-once mode: the script ends after start_loop(True)
ScriptEnd ==
  /\ pc = "script_end"
  /\ Exit(0)
  /\ UNCHANGED <<inputVars, runVars, sch, startupDelay, stats, kill_now, jobs,
                 now, ret, wake, runnable, next_run_time, first_run, cfgIdx,
                 handlers, items, calls, activeRuns, armed, passLog, hook, req, passes>>

\* the clock advances while the process sleeps
Tick ==
  /\ pc \in {"startup_delay", "sleep"}
  /\ now < wake
  /\ now' = IF now + TimeStep < wake THEN now + TimeStep ELSE wake
  /\ now' <= MaxTime
  /\ UNCHANGED <<inputVars, runVars, sch, startupDelay, stats, kill_now, jobs,
                 pc, ret, exitCode, wake, runnable, next_run_time, first_run,
                 cfgIdx, handlers, items, calls, activeRuns, armed, passLog,
                 hook, req, passes>>

(***************************************************************************)
(* start_loop (lines 405-420).                                             *)
(***************************************************************************)
\* for config_file in config_files: ... start()
StartLoopNext ==
  /\ pc = "start_loop"
  /\ cfgIdx < Len(config_files)
  /\ cfgIdx' = cfgIdx + 1
  /\ handlers' = IF Len(config_files) = 1
                  THEN handlers
                  ELSE handlers \cup {config_files[cfgIdx + 1]}
  /\ pc' = "start"
  /\ UNCHANGED <<inputVars, runVars, sch, startupDelay, stats, kill_now, jobs,
                 now, ret, exitCode, wake, runnable, next_run_time, first_run,
                 items, calls, activeRuns, armed, passLog, hook, req, passes>>

\* a start_loop that stops iterating once killer.kill_now is set
StartLoopReturn_OnKill ==
  /\ pc = "start_loop"
  /\ (cfgIdx >= Len(config_files) \/ kill_now)
  /\ pc' = ret
  /\ ret' = "none"
  /\ UNCHANGED <<inputVars, runVars, sch, startupDelay, stats, kill_now, jobs,
                 now, exitCode, wake, runnable, next_run_time, first_run,
                 cfgIdx, handlers, items, calls, activeRuns, armed, passLog,
                 hook, req, passes>>

\* start_loop returns to its caller
StartLoopReturn ==
  /\ pc = "start_loop"
  /\ cfgIdx >= Len(config_files)
  /\ pc' = ret
  /\ ret' = "none"
  /\ UNCHANGED <<inputVars, runVars, sch, startupDelay, stats, kill_now, jobs,
                 now, exitCode, wake, runnable, next_run_time, first_run,
                 cfgIdx, handlers, items, calls, activeRuns, armed, passLog,
                 hook, req, passes>>

(***************************************************************************)
(* start (lines 423-581).                                                  *)
(***************************************************************************)
\* a start() that leaves the global stats as the previous run left it
StartBegin_StatsKept ==
  /\ pc = "start"
  /\ start_time' = now
  /\ stats_summary' = <<>>
  /\ cfg' = NoConfig
  /\ end_time' = -1
  /\ next_run' = -1
  /\ calls' = <<>>
  /\ hook' = NoHook
  /\ activeRuns' = activeRuns + 1
  /\ req' = IF req.made THEN [req EXCEPT !.ran = TRUE] ELSE req
  /\ pc' = "acquire"
  /\ UNCHANGED <<inputVars, stats, sch, startupDelay, kill_now, jobs, now, ret,
                 exitCode, wake, runnable, next_run_time, first_run, cfgIdx,
                 handlers, items, armed, passLog, passes>>

\* lines 425-454: the locals and the global stats are reset
StartBegin ==
  /\ pc = "start"
  /\ start_time' = now
  /\ stats_summary' = <<>>
  /\ cfg' = NoConfig
  /\ end_time' = -1
  /\ next_run' = -1
  /\ stats' = ZeroStats
  /\ calls' = <<>>
  /\ hook' = NoHook
  /\ activeRuns' = activeRuns + 1
  /\ req' = IF req.made THEN [req EXCEPT !.ran = TRUE] ELSE req
  /\ pc' = "acquire"
  /\ UNCHANGED <<inputVars, sch, startupDelay, kill_now, jobs, now, ret,
                 exitCode, wake, runnable, next_run_time, first_run, cfgIdx,
                 handlers, items, armed, passLog, passes>>

\* the time the run takes
Elapse == now' = now + RunSecs /\ now' <= MaxTime

\* lines 479-481: Config(default_dir, args) returns
ConfigLoaded ==
  /\ pc = "acquire"
  /\ cfg' = [loaded |-> TRUE, commands |-> disk[config_files[cfgIdx]]]
  /\ Elapse
  /\ pc' = "category"
  /\ UNCHANGED <<inputVars, stats_summary, start_time, end_time, next_run,
                 sch, startupDelay, stats, kill_now, jobs, ret, exitCode, wake,
                 runnable, next_run_time, first_run, cfgIdx, handlers, items,
                 calls, activeRuns, armed, passLog, hook, req, passes>>

\* lines 482-485: Config(default_dir, args) raises
ConfigFailed ==
  /\ pc = "acquire"
  /\ Elapse
  /\ pc' = "failed"
  /\ UNCHANGED <<inputVars, runVars, sch, startupDelay, stats, kill_now, jobs,
                 ret, exitCode, wake, runnable, next_run_time, first_run,
                 cfgIdx, handlers, items, calls, activeRuns, armed, passLog,
                 hook, req, passes>>

\* one stage of the pipeline: when enabled, the stage called `name` is
\* invoked and Add(r) of its k result counts r is merged into stats
Stage(here, next, enabled, name, k, Add(_)) ==
  /\ pc = here
  /\ IF enabled
     THEN \E r \in Results(items, k) :
            /\ stats' = Merge(stats, Add(r))
            /\ items' = items - Total(r)
            /\ calls' = Append(calls, [name |-> name, r |-> r])
     ELSE UNCHANGED <<stats, items, calls>>
  /\ pc' = next
  /\ UNCHANGED <<inputVars, runVars, sch, startupDelay, kill_now, jobs, now,
                 ret, exitCode, wake, runnable, next_run_time, first_run,
                 cfgIdx, handlers, activeRuns, armed, passLog, hook, req, passes>>

\* lines 490-492; r: Category(qbit_manager).stats
AddCategory(r) == [categorized |-> r[1]]

\* a category update that ignores cfg.commands["cat_update"]
CategoryStage_Always ==
  Stage("category", "tags", TRUE, "category", 1, AddCategory)

CategoryStage ==
  Stage("category", "tags", "cat_update" \in cfg.commands, "category", 1,
        AddCategory)

\* lines 494-496; r: Tags(qbit_manager).stats
AddTags(r) == [tagged |-> r[1]]

TagsStage ==
  Stage("tags", "rem_unregistered", "tag_update" \in cfg.commands, "tags", 1,
        AddTags)

\* lines 498-506; r: stats_deleted, stats_deleted_contents, stats_tagged,
\* stats_untagged
AddRemoveUnregistered(r) ==
  [rem_unreg |-> r[1] + r[2],
   deleted |-> r[1],
   deleted_contents |-> r[2],
   tagged_tracker_error |-> r[3],
   untagged_tracker_error |-> r[4],
   tagged |-> r[3]]

RemoveUnregisteredStage ==
  Stage("rem_unregistered", "recheck",
        "rem_unregistered" \in cfg.commands
          \/ "tag_tracker_error" \in cfg.commands,
        "rem_unregistered", 4, AddRemoveUnregistered)

\* lines 508-512; r: stats_resumed, stats_rechecked
AddReCheck(r) == [resumed |-> r[1], rechecked |-> r[2]]

ReCheckStage ==
  Stage("recheck", "tag_nohardlinks", "recheck" \in cfg.commands, "recheck", 2,
        AddReCheck)

\* lines 514-519; r: stats_tagged, stats_untagged
AddTagNoHardLinks(r) ==
  [tagged |-> r[1], tagged_noHL |-> r[1], untagged_noHL |-> r[2]]

\* a share-limit merge that credits only plain deletions to
\* cleaned_share_limits
AddShareLimits_ContentsForgotten(r) ==
  [tagged |-> r[1],
   updated_share_limits |-> r[1],
   deleted |-> r[2],
   deleted_contents |-> r[3],
   cleaned_share_limits |-> r[2]]

\* lines 521-528; r: stats_tagged, stats_deleted, stats_deleted_contents
AddShareLimits(r) ==
  [tagged |-> r[1],
   updated_share_limits |-> r[1],
   deleted |-> r[2],
   deleted_contents |-> r[3],
   cleaned_share_limits |-> r[2] + r[3]]

\* ShareLimits pasted where TagNoHardLinks belongs
TagNoHardLinksStage_Pasted ==
  Stage("tag_nohardlinks", "share_limits", "tag_nohardlinks" \in cfg.commands,
        "share_limits", 3, AddShareLimits)

TagNoHardLinksStage ==
  Stage("tag_nohardlinks", "share_limits", "tag_nohardlinks" \in cfg.commands,
        "tag_nohardlinks", 2, AddTagNoHardLinks)

ShareLimitsStage ==
  Stage("share_limits", "rem_orphaned", "share_limits" \in cfg.commands,
        "share_limits", 3, AddShareLimits)

\* lines 530-532; r: RemoveOrphaned(qbit_manager).stats
AddRemoveOrphaned(r) == [orphaned |-> r[1]]

RemoveOrphanedStage ==
  Stage("rem_orphaned", "recycle_bin", "rem_orphaned" \in cfg.commands,
        "rem_orphaned", 1, AddRemoveOrphaned)

\* lines 534-535; r: cfg.cleanup_dirs("Recycle Bin")
AddRecycleBin(r) == [recycle_emptied |-> r[1]]

\* called whatever the commands are
RecycleBinStage ==
  Stage("recycle_bin", "orphaned_data", TRUE, "recycle_bin", 1, AddRecycleBin)

\* lines 537-538; r: cfg.cleanup_dirs("Orphaned Data")
AddOrphanedData(r) == [orphaned_emptied |-> r[1]]

\* called whatever the commands are
OrphanedDataStage ==
  Stage("orphaned_data", "summary", TRUE, "orphaned_data", 1, AddOrphanedData)

\* the order of the tests of lines 540-573
SummaryOrder ==
  <<"categorized", "tagged", "rem_unreg", "tagged_tracker_error",
    "untagged_tracker_error", "added", "resumed", "rechecked", "deleted",
    "deleted_contents", "orphaned", "tagged_noHL", "untagged_noHL",
    "updated_share_limits", "cleaned_share_limits", "recycle_emptied",
    "orphaned_emptied">>

\* a summary whose tests are >= 0
Summary_ZeroShown(st) ==
  LET shown == SelectSeq(SummaryOrder, LAMBDA k : st[k] >= 0)
  IN  [i \in 1..Len(shown) |-> [key |-> shown[i], count |-> st[shown[i]]]]

\* stats_summary after lines 540-573: a line per counter that is > 0
Summary(st) ==
  LET shown == SelectSeq(SummaryOrder, LAMBDA k : st[k] > 0)
  IN  [i \in 1..Len(shown) |-> [key |-> shown[i], count |-> st[shown[i]]]]

BuildSummary ==
  /\ pc = "summary"
  /\ stats_summary' = Summary(stats)
  /\ pc' = "finished_run"
  /\ UNCHANGED <<inputVars, cfg, start_time, end_time, next_run, sch,
                 startupDelay, stats, kill_now, jobs, now, ret, exitCode, wake,
                 runnable, next_run_time, first_run, cfgIdx, handlers, items,
                 calls, activeRuns, armed, passLog, hook, req, passes>>

\* a calc_next_run that reports the time also in run-once mode
calc_next_run_Always(t) == t

\* calc_next_run(next_run_time)["next_run"] (lines 591-605); -1 is None
calc_next_run(t) == IF run = FALSE THEN t ELSE -1

\* finished_run() (lines 456-477), then control goes to position next
finished_run(next) ==
  /\ end_time' = now
  /\ IF run = FALSE
     THEN LET r == Rearm(now)
          IN  /\ jobs' = r.jobs
              /\ req' = IF req.made THEN [req EXCEPT !.rearmed = TRUE] ELSE req
              /\ IF r.failed
                 THEN Exit(1) /\ UNCHANGED <<next_run, armed>>
                 ELSE /\ next_run' = calc_next_run(r.next_run_time)
                      /\ armed' = TRUE
                      /\ pc' = next
                      /\ UNCHANGED exitCode
     ELSE /\ next_run' = calc_next_run(now)
          /\ pc' = next
          /\ UNCHANGED <<jobs, req, armed, exitCode>>
  /\ UNCHANGED <<inputVars, cfg, stats_summary, start_time, sch, startupDelay,
                 stats, kill_now, now, ret, wake, runnable, next_run_time,
                 first_run, cfgIdx, handlers, items, calls, activeRuns, passLog,
                 hook, passes>>

\* an end of run that computes the next run but leaves the job table as it is
FinishedRun_NotRearmed ==
  /\ pc = "finished_run"
  /\ end_time' = now
  /\ next_run' = calc_next_run(IF run = FALSE
                               THEN Rearm(now).next_run_time
                               ELSE now)
  /\ pc' = "notify"
  /\ UNCHANGED <<inputVars, cfg, stats_summary, start_time, sch, startupDelay,
                 stats, kill_now, jobs, now, ret, exitCode, wake, runnable,
                 next_run_time, first_run, cfgIdx, handlers, items, calls,
                 activeRuns, armed, passLog, hook, req, passes>>

\* line 575
FinishedRun == pc = "finished_run" /\ finished_run("notify")

\* a failure path that starts the run again from inside start()
FinishedRunFailed_Retry == pc = "failed" /\ finished_run("start")

\* a failure path that leaves start_loop (the exception is not contained)
FinishedRunFailed_Escapes == pc = "failed" /\ finished_run(ret)

\* a failure path that returns without finished_run()
FinishedRunFailed_Skipped ==
  /\ pc = "failed"
  /\ pc' = "start_return"
  /\ UNCHANGED <<inputVars, runVars, sch, startupDelay, stats, kill_now, jobs,
                 now, ret, exitCode, wake, runnable, next_run_time, first_run,
                 cfgIdx, handlers, items, calls, activeRuns, armed, passLog,
                 hook, req, passes>>

\* lines 486-487: finished_run() on the failure path, then return None
FinishedRunFailed == pc = "failed" /\ finished_run("start_return")

\* what end_time_hooks does: it returns, or it raises its declared error
NotifierOutcomes == {"sent", "Failed"}

\* a notifier call whose Failed is not caught
Notify_Uncaught ==
  /\ pc = "notify"
  /\ cfg.loaded
  /\ \E outcome \in NotifierOutcomes :
       /\ hook' = [called |-> TRUE,
                   outcome |-> outcome,
                   start_time |-> start_time,
                   end_time |-> end_time,
                   run_time |-> end_time - start_time,
                   next_run |-> next_run,
                   stats |-> stats,
                   body |-> stats_summary]
       /\ IF outcome = "Failed"
          THEN Exit(1)
          ELSE pc' = "start_return" /\ UNCHANGED exitCode
  /\ UNCHANGED <<inputVars, runVars, sch, startupDelay, stats, kill_now, jobs,
                 now, ret, wake, runnable, next_run_time, first_run, cfgIdx,
                 handlers, items, calls, activeRuns, armed, passLog, req,
                 passes>>

\* lines 576-581: end_time_hooks is called; a Failed it raises is caught
Notify ==
  /\ pc = "notify"
  /\ IF cfg.loaded
     THEN \E outcome \in NotifierOutcomes :
            hook' = [called |-> TRUE,
                     outcome |-> outcome,
                     start_time |-> start_time,
                     end_time |-> end_time,
                     run_time |-> end_time - start_time,
                     next_run |-> next_run,
                     stats |-> stats,
                     body |-> stats_summary]
     ELSE UNCHANGED hook
  /\ pc' = "start_return"
  /\ UNCHANGED <<inputVars, runVars, sch, startupDelay, stats, kill_now, jobs,
                 now, ret, exitCode, wake, runnable, next_run_time, first_run,
                 cfgIdx, handlers, items, calls, activeRuns, armed, passLog,
                 req, passes>>

\* a start_loop that never removes the config log handler
StartReturn_HandlerKept ==
  /\ pc = "start_return"
  /\ activeRuns' = activeRuns - 1
  /\ passLog' = Append(passLog, [id |-> config_files[cfgIdx],
                                 loaded |-> cfg.loaded,
                                 hooked |-> hook.called,
                                 outcome |-> IF hook.called
                                             THEN hook.outcome
                                             ELSE "none"])
  /\ cfg' = NoConfig
  /\ stats_summary' = <<>>
  /\ start_time' = 0
  /\ end_time' = -1
  /\ next_run' = -1
  /\ calls' = <<>>
  /\ hook' = NoHook
  /\ pc' = "start_loop"
  /\ UNCHANGED <<inputVars, sch, startupDelay, stats, kill_now, jobs, now, ret,
                 exitCode, wake, runnable, next_run_time, first_run, cfgIdx,
                 handlers,
                 items, armed, req, passes>>

\* start() returns and its locals are gone; line 420: the config log handler
\* of the entry is removed
StartReturn ==
  /\ pc = "start_return"
  /\ activeRuns' = activeRuns - 1
  /\ handlers' = handlers \ {config_files[cfgIdx]}
  /\ passLog' = Append(passLog, [id |-> config_files[cfgIdx],
                                 loaded |-> cfg.loaded,
                                 hooked |-> hook.called,
                                 outcome |-> IF hook.called
                                             THEN hook.outcome
                                             ELSE "none"])
  /\ cfg' = NoConfig
  /\ stats_summary' = <<>>
  /\ start_time' = 0
  /\ end_time' = -1
  /\ next_run' = -1
  /\ calls' = <<>>
  /\ hook' = NoHook
  /\ pc' = "start_loop"
  /\ UNCHANGED <<inputVars, sch, startupDelay, stats, kill_now, jobs, now, ret,
                 exitCode, wake, runnable, next_run_time, first_run, cfgIdx,
                 items, armed, req, passes>>

(***************************************************************************)
(* GracefulKiller: a termination signal sets kill_now.                     *)
(***************************************************************************)
\* where the thread of control is when the request arrives
Phase ==
  IF pc \in {"sleep", "run_pending", "startup_delay"} THEN pc
  ELSE IF activeRuns > 0 \/ pc \in {"start_loop", "start"} THEN "run"
  ELSE "other"

Signal ==
  /\ Alive
  /\ ~kill_now
  /\ kill_now' = TRUE
  /\ req' = [made |-> TRUE, at |-> Phase,
             time |-> IF Phase = "sleep" THEN now ELSE 0,
             due |-> Phase = "run_pending" /\ RunnableJobs # <<>>,
             passes |-> IF Phase \in {"startup_delay", "run_pending"}
                        THEN passes
                        ELSE 0,
             ran |-> FALSE, rearmed |-> FALSE]
  /\ UNCHANGED <<inputVars, runVars, sch, startupDelay, stats, jobs, now, pc,
                 ret, exitCode, wake, runnable, next_run_time, first_run,
                 cfgIdx, handlers, items, calls, activeRuns, armed, passLog,
                 hook, passes>>

(***************************************************************************)
(* The specification.                                                      *)
(***************************************************************************)
Next ==
  \/ ValidateSchedule
  \/ ValidateStartupDelay
  \/ MainRunOnce
  \/ MainCron
  \/ MainInterval
  \/ StartupDelayEnd
  \/ LoopHead
  \/ RunPending
  \/ RunJob
  \/ JobReturn
  \/ PollSleep
  \/ PollWake
  \/ End
  \/ ScriptEnd
  \/ Tick
  \/ StartLoopNext
  \/ StartLoopReturn
  \/ StartBegin
  \/ ConfigLoaded
  \/ ConfigFailed
  \/ CategoryStage
  \/ TagsStage
  \/ RemoveUnregisteredStage
  \/ ReCheckStage
  \/ TagNoHardLinksStage
  \/ ShareLimitsStage
  \/ RemoveOrphanedStage
  \/ RecycleBinStage
  \/ OrphanedDataStage
  \/ BuildSummary
  \/ FinishedRun
  \/ FinishedRunFailed
  \/ Notify
  \/ StartReturn
  \/ Signal

Spec == Init /\ [][Next]_vars

\* one run of one configuration, for every set of enabled commands
NextPipeline ==
  \/ ValidateSchedule
  \/ ValidateStartupDelay
  \/ MainRunOnce
  \/ ScriptEnd
  \/ StartLoopNext
  \/ StartLoopReturn
  \/ StartBegin
  \/ ConfigLoaded
  \/ ConfigFailed
  \/ CategoryStage
  \/ TagsStage
  \/ RemoveUnregisteredStage
  \/ ReCheckStage
  \/ TagNoHardLinksStage
  \/ ShareLimitsStage
  \/ RemoveOrphanedStage
  \/ RecycleBinStage
  \/ OrphanedDataStage
  \/ BuildSummary
  \/ FinishedRun
  \/ FinishedRunFailed
  \/ Notify
  \/ StartReturn

SpecPipeline == InitPipeline /\ [][NextPipeline]_vars

\* scheduled mode with schedules that can be armed or fail at arming
InitLive ==
  /\ run = FALSE
  /\ rawSch \in {S_1, S_0, S_every_minute, S_feb_30}
  /\ rawDelay \in {D_0, D_90}
  /\ config_files \in {<<1>>, <<1, 2>>}
  /\ disk \in [1..Len(config_files) -> {{"tag_update"}}]
  /\ InitRest

\* the steps of the thread of control and of the clock
Progress ==
  \/ ValidateSchedule
  \/ ValidateStartupDelay
  \/ MainCron
  \/ MainInterval
  \/ StartupDelayEnd
  \/ LoopHead
  \/ RunPending
  \/ RunJob
  \/ JobReturn
  \/ PollSleep
  \/ PollWake
  \/ End
  \/ Tick
  \/ StartLoopNext
  \/ StartLoopReturn
  \/ StartBegin
  \/ ConfigLoaded
  \/ ConfigFailed
  \/ CategoryStage
  \/ TagsStage
  \/ RemoveUnregisteredStage
  \/ ReCheckStage
  \/ TagNoHardLinksStage
  \/ ShareLimitsStage
  \/ RemoveOrphanedStage
  \/ RecycleBinStage
  \/ OrphanedDataStage
  \/ BuildSummary
  \/ FinishedRun
  \/ FinishedRunFailed
  \/ Notify
  \/ StartReturn

NextLive == Progress \/ Signal

\* the interpreter keeps executing and the clock keeps advancing; a
\* termination signal may or may not arrive
SpecLive == InitLive /\ [][NextLive]_vars /\ WF_vars(Progress)

(***************************************************************************)
(* Vocabulary of the properties.                                           *)
(***************************************************************************)
\* the positions inside start()
InStart ==
  {"acquire", "failed", "category", "tags", "rem_unregistered", "recheck",
   "tag_nohardlinks", "share_limits", "rem_orphaned", "recycle_bin",
   "orphaned_data", "summary", "finished_run", "notify", "start_return"}

\* the positions inside start_loop()
InPass == InStart \cup {"start_loop", "start"}

\* the names of the stages invoked so far in the current run
CallNames == [i \in 1..Len(calls) |-> calls[i].name]

\* what the stage called `name` merges into stats from its result r
AddOf(name, r) ==
  CASE name = "category" -> AddCategory(r)
    [] name = "tags" -> AddTags(r)
    [] name = "rem_unregistered" -> AddRemoveUnregistered(r)
    [] name = "recheck" -> AddReCheck(r)
    [] name = "tag_nohardlinks" -> AddTagNoHardLinks(r)
    [] name = "share_limits" -> AddShareLimits(r)
    [] name = "rem_orphaned" -> AddRemoveOrphaned(r)
    [] name = "recycle_bin" -> AddRecycleBin(r)
    [] name = "orphaned_data" -> AddOrphanedData(r)

\* the stats of a run in which exactly the calls cs returned their results
RECURSIVE StatsOf(_)
StatsOf(cs) ==
  IF cs = <<>> THEN ZeroStats
  ELSE Merge(StatsOf(SubSeq(cs, 1, Len(cs) - 1)),
             AddOf(cs[Len(cs)].name, cs[Len(cs)].r))

\* the capability that gates each of the seven gated stages
Gated ==
  {"category", "tags", "rem_unregistered", "recheck", "tag_nohardlinks",
   "share_limits", "rem_orphaned"}

Capability(name, cmds) ==
  CASE name = "category" -> "cat_update" \in cmds
    [] name = "tags" -> "tag_update" \in cmds
    [] name = "rem_unregistered" ->
         "rem_unregistered" \in cmds \/ "tag_tracker_error" \in cmds
    [] name = "recheck" -> "recheck" \in cmds
    [] name = "tag_nohardlinks" -> "tag_nohardlinks" \in cmds
    [] name = "share_limits" -> "share_limits" \in cmds
    [] name = "rem_orphaned" -> "rem_orphaned" \in cmds
    [] name \in {"recycle_bin", "orphaned_data"} -> "skip_cleanup" \notin cmds

\* the counters only the stage called `name` writes
OwnCounters(name) ==
  CASE name = "category" -> {"categorized"}
    [] name = "tags" -> {}
    [] name = "rem_unregistered" ->
         {"rem_unreg", "tagged_tracker_error", "untagged_tracker_error"}
    [] name = "recheck" -> {"resumed", "rechecked"}
    [] name = "tag_nohardlinks" -> {"tagged_noHL", "untagged_noHL"}
    [] name = "share_limits" -> {"updated_share_limits", "cleaned_share_limits"}
    [] name = "rem_orphaned" -> {"orphaned"}
    [] name = "recycle_bin" -> {"recycle_emptied"}
    [] name = "orphaned_data" -> {"orphaned_emptied"}

\* the position of x in the sequence seq (0 when absent)
PosIn(seq, x) ==
  IF \E i \in 1..Len(seq) : seq[i] = x
  THEN CHOOSE i \in 1..Len(seq) : seq[i] = x
  ELSE 0

\* the members of seq keep the relative order they have in order, none twice
InOrderOf(seq, order) ==
  /\ \A i \in 1..Len(seq) : PosIn(order, seq[i]) > 0
  /\ \A i, j \in 1..Len(seq) :
       i < j => PosIn(order, seq[i]) < PosIn(order, seq[j])

\* start_loop has run start() for every entry of the ConfigSet
PassComplete ==
  /\ Len(passLog) = Len(config_files)
  /\ \A i \in 1..Len(passLog) : passLog[i].id = config_files[i]

(***************************************************************************)
(* C1: in every reachable state at most one execution of start() is in     *)
(* progress: a run is in progress exactly while control is inside start(), *)
(* and start() is never entered while a run is in progress, in run-once    *)
(* and in scheduled mode, for every ConfigSet and timing of due jobs.      *)
(***************************************************************************)
C1_AtMostOneRun ==
  /\ activeRuns \in {0, 1}
  /\ pc = "start" => activeRuns = 0
  /\ activeRuns = 1 <=> pc \in InStart

\* a run fired by a due job, for the second configuration, is in progress
C1_Witness ==
  /\ ~run
  /\ ret = "job_return"
  /\ cfgIdx = 2
  /\ pc = "share_limits"
  /\ activeRuns = 1

(***************************************************************************)
(* C2: once the schedule has been armed, the job table holds exactly one   *)
(* job in every state: every rearm replaces the pending job by one new     *)
(* job, also when it is called from inside the executing job and once per  *)
(* configuration of a pass.                                                *)
(***************************************************************************)
C2_ExactlyOneJob == armed => Len(jobs) = 1

\* the rearm of the second configuration's run inside the executing job
C2_Witness ==
  /\ armed
  /\ ret = "job_return"
  /\ cfgIdx = 2
  /\ pc = "notify"
  /\ Len(jobs) = 1
  /\ ~jobs[1].running

(***************************************************************************)
(* C3: for every raw schedule string that is neither a positive integer    *)
(* nor a valid cron expression, startup ends with exit code 1 at the       *)
(* validation: no job is installed and no run is attempted.                *)
(***************************************************************************)
ValidRawSchedule(s) ==
  \/ IsIntLiteral(s) /\ IntValue(s) >= 1
  \/ CronSyntaxOK(s)

C3_InvalidScheduleStopsStartup ==
  ~ValidRawSchedule(rawSch) =>
    /\ pc \in {"validate_schedule", "exited"}
    /\ pc = "exited" => exitCode = 1
    /\ jobs = <<>>
    /\ activeRuns = 0

(***************************************************************************)
(* C4: a configuration whose acquisition fails does not stop the pass:     *)
(* whenever control has left start_loop, start() has been run for every    *)
(* entry of the ConfigSet in order, and every entry that loaded was        *)
(* notified; the stats and summary handed to the notifier of a loaded      *)
(* entry are those of its own stage results alone.                         *)
(***************************************************************************)
C4_FailureIsolation ==
  /\ pc = "start_loop" =>
       /\ Len(passLog) = cfgIdx
       /\ \A i \in 1..Len(passLog) :
            /\ passLog[i].id = config_files[i]
            /\ passLog[i].loaded => passLog[i].hooked
  /\ (cfgIdx > 0 /\ pc \notin InPass) => PassComplete
  /\ (pc = "start_return" /\ cfg.loaded) =>
       /\ hook.called
       /\ hook.stats = StatsOf(calls)
       /\ hook.body = Summary(StatsOf(calls))

\* three entries, the second failed, the first and the third ran and counted
C4_Witness ==
  /\ pc = "start_return"
  /\ cfgIdx = 3
  /\ Len(passLog) = 2
  /\ passLog[1].loaded
  /\ ~passLog[2].loaded
  /\ cfg.loaded
  /\ hook.called
  /\ hook.stats["rem_unreg"] > 0

(***************************************************************************)
(* C5: when configuration acquisition fails, no stage is invoked and every *)
(* counter is 0; when start() returns, in scheduled mode a freshly         *)
(* installed job is pending whose due time is the next run computed by     *)
(* this run, and the process is still alive.                               *)
(***************************************************************************)
C5_ConfigFailureRecoverable ==
  /\ pc = "failed" => (calls = <<>> /\ stats = ZeroStats /\ Alive)
  /\ (pc = "start_return" /\ ~cfg.loaded) =>
       /\ calls = <<>>
       /\ stats = ZeroStats
       /\ stats_summary = <<>>
       /\ Alive
       /\ end_time = now
       /\ ~run =>
            /\ Len(jobs) = 1
            /\ ~jobs[1].running
            /\ jobs[1].due = next_run

\* a failed acquisition in a run fired by a due job, after a run that counted
C5_Witness ==
  /\ pc = "start_return"
  /\ ~cfg.loaded
  /\ ~run
  /\ ret = "job_return"
  /\ items < MaxItems

(***************************************************************************)
(* C6: a termination request that arrives while the loop sleeps between    *)
(* two poll ticks makes the loop exit with code 0 at its next check, at    *)
(* most one poll tick after the request: no run starts and the schedule is *)
(* not rearmed after the request.                                          *)
(***************************************************************************)
C6_ShutdownBetweenTicks ==
  (req.made /\ req.at = "sleep") =>
    /\ pc \in {"sleep", "loop_head", "end", "exited"}
    /\ ~req.ran
    /\ ~req.rearmed
    /\ activeRuns = 0
    /\ now - req.time <= PollTick
    /\ pc = "exited" => exitCode = 0

\* the loop has exited a whole poll tick after a request made while asleep
C6_Witness ==
  /\ req.made
  /\ req.at = "sleep"
  /\ pc = "exited"
  /\ exitCode = 0
  /\ now - req.time = PollTick

(***************************************************************************)
(* C7: a termination request that arrives while a run is in progress does  *)
(* not interrupt it: every run that loaded its configuration ends with all *)
(* its enabled stages invoked and its notifier called, and the process     *)
(* exits (code 0) only after start_loop has run every entry.               *)
(***************************************************************************)
C7_RunNotInterrupted ==
  (req.made /\ req.at = "run") =>
    /\ (pc = "start_return" /\ cfg.loaded) =>
         /\ hook.called
         /\ \A n \in Gated : Capability(n, cfg.commands) =>
              \E i \in 1..Len(calls) : calls[i].name = n
    /\ pc \notin InPass =>
         /\ PassComplete
         /\ \A i \in 1..Len(passLog) : passLog[i].loaded => passLog[i].hooked
    /\ pc = "exited" => exitCode = 0

\* the request arrived during the first of two runs of a pass fired by a job
C7_Witness ==
  /\ req.made
  /\ req.at = "run"
  /\ req.ran
  /\ ~run
  /\ pc = "exited"
  /\ Len(passLog) = 2
  /\ passLog[2].loaded

(***************************************************************************)
(* C8 as stated: the summary holds exactly one line per non-zero counter,  *)
(* in the order of the data model (unregistered-removed after the two      *)
(* tracker-error lines, added last).                                       *)
(***************************************************************************)
DocumentedOrder ==
  <<"categorized", "tagged", "tagged_tracker_error", "untagged_tracker_error",
    "rem_unreg", "resumed", "rechecked", "deleted", "deleted_contents",
    "orphaned", "tagged_noHL", "untagged_noHL", "updated_share_limits",
    "cleaned_share_limits", "recycle_emptied", "orphaned_emptied", "added">>

SummaryKeys == [i \in 1..Len(stats_summary) |-> stats_summary[i].key]

\* one line per non-zero counter, with its count, and no other line
ExactlyNonZero ==
  /\ \A k \in StatKeys :
       Cardinality({i \in 1..Len(stats_summary) : stats_summary[i].key = k})
         = IF stats[k] # 0 THEN 1 ELSE 0
  /\ \A i \in 1..Len(stats_summary) :
       /\ stats_summary[i].key \in StatKeys
       /\ stats_summary[i].count = stats[stats_summary[i].key]

SummaryBuilt == pc \in {"finished_run", "notify", "start_return"} /\ cfg.loaded

C8_DocumentedOrder ==
  SummaryBuilt => (ExactlyNonZero /\ InOrderOf(SummaryKeys, DocumentedOrder))

(***************************************************************************)
(* C8 amended: the summary holds exactly one line per non-zero counter and *)
(* none for a zero counter, in the order categorized, tagged,              *)
(* unregistered-removed, tagged-tracker-error, untagged-tracker-error,     *)
(* added, resumed, rechecked, deleted, deleted-with-contents,              *)
(* orphaned-found, tagged-no-hardlinks, untagged-no-hardlinks,             *)
(* share-limits-updated, share-limits-cleaned, recycle-bin-emptied,        *)
(* orphaned-dir-emptied.                                                   *)
(***************************************************************************)
PrintedOrder ==
  <<"categorized", "tagged", "rem_unreg", "tagged_tracker_error",
    "untagged_tracker_error", "added", "resumed", "rechecked", "deleted",
    "deleted_contents", "orphaned", "tagged_noHL", "untagged_noHL",
    "updated_share_limits", "cleaned_share_limits", "recycle_emptied",
    "orphaned_emptied">>

C8_PrintedOrder ==
  SummaryBuilt => (ExactlyNonZero /\ InOrderOf(SummaryKeys, PrintedOrder))

\* a summary with an unregistered-removed and a tracker-error line
C8_Witness ==
  /\ SummaryBuilt
  /\ stats["rem_unreg"] > 0
  /\ stats["tagged_tracker_error"] > 0
  /\ Len(stats_summary) >= 3

(***************************************************************************)
(* C9: within a run the stages are invoked in the order category update,   *)
(* tag update, unregistered removal / tracker-error tagging, recheck,      *)
(* hard-link-absence tagging, share-limit enforcement, orphaned-file       *)
(* removal, recycle-bin cleanup, orphaned-directory cleanup: no stage      *)
(* before one that precedes it, none twice, for every set of commands.     *)
(***************************************************************************)
StageOrder ==
  <<"category", "tags", "rem_unregistered", "recheck", "tag_nohardlinks",
    "share_limits", "rem_orphaned", "recycle_bin", "orphaned_data">>

C9_StageOrder == InOrderOf(CallNames, StageOrder)

\* a run in which all nine stages were invoked
C9_Witness == pc = "summary" /\ Len(calls) = 9

NotifierFailed == hook.called /\ hook.outcome = "Failed"

FailedInPass == \E i \in 1..Len(passLog) : passLog[i].outcome = "Failed"

C11_NotifierFailureContained ==
  /\ NotifierFailed =>
       /\ pc = "start_return"
       /\ Alive
       /\ activeRuns = 1
       /\ ~run =>
            /\ Len(jobs) = 1
            /\ ~jobs[1].running
            /\ jobs[1].due = hook.next_run
  /\ FailedInPass =>
       /\ pc = "start_loop" => Len(passLog) = cfgIdx
       /\ pc \notin InPass => PassComplete
       /\ (~run /\ Alive) => Len(jobs) = 1
       /\ pc = "exited" => (exitCode = 0 /\ (run \/ kill_now))

\* the second pass of the loop: the notifier failed for the first entry, the
\* second entry was run and notified, and the loop sleeps until its next tick
C11_Witness ==
  /\ ~run
  /\ passes = 2
  /\ pc = "sleep"
  /\ ~kill_now
  /\ Len(passLog) = 2
  /\ passLog[1].outcome = "Failed"
  /\ passLog[2].hooked
  /\ Len(jobs) = 1

(***************************************************************************)
(* C12: with the run-once flag set the process executes one pass of        *)
(* start_loop, one run per entry of the ConfigSet, and ends: the job table *)
(* stays empty, control never enters the startup delay or the polling      *)
(* loop, and the next run handed to the notifier is None.                  *)
(***************************************************************************)
PollingLoop ==
  {"startup_delay", "loop_head", "run_pending", "run_jobs", "job_return",
   "sleep", "end"}

C12_RunOnce ==
  run =>
    /\ jobs = <<>>
    /\ ~armed
    /\ pc \notin PollingLoop
    /\ passes <= 1
    /\ next_run = -1
    /\ hook.called => hook.next_run = -1
    /\ pc = "script_end" => (passes = 1 /\ PassComplete)
    /\ pc = "exited" =>
         \/ exitCode = 0 /\ passes = 1 /\ PassComplete
         \/ exitCode = 1 /\ passes = 0

\* the process has ended after one pass over three configurations, the
\* last of which was notified
C12_Witness ==
  /\ run
  /\ pc = "exited"
  /\ exitCode = 0
  /\ passes = 1
  /\ Len(passLog) = 3
  /\ passLog[3].hooked

(***************************************************************************)
(* C13 as stated: in scheduled mode, with an interval and with a cron      *)
(* schedule alike, one pass of start_loop has been executed (the call      *)
(* start_loop(True)) when the loop begins to poll for due jobs.            *)
(***************************************************************************)
\* control is in the polling loop, or in a pass that a due job fired
Polling ==
  \/ pc \in {"loop_head", "run_pending", "run_jobs", "job_return", "sleep", "end"}
  \/ pc \in InPass /\ ret = "job_return"

C13_ImmediatePass ==
  (~run /\ Polling) => (passes >= 1 /\ (passes = 1 => first_run))

(***************************************************************************)
(* C13 amended: with an interval schedule exactly one pass is executed     *)
(* immediately (after any startup delay) before the loop begins polling;   *)
(* with a cron schedule no pass is executed before polling begins, and     *)
(* every pass is fired by the job, not before the expression's first       *)
(* occurrence.                                                             *)
(***************************************************************************)
C13_ImmediatePassIntervalOnly ==
  ~run =>
    IF sch.isInt
    THEN /\ Polling => (passes >= 1 /\ (passes = 1 => first_run))
         /\ (passes = 1 /\ pc \in InPass) => ret = "loop_head"
    ELSE /\ ~first_run
         /\ pc \in InPass => ret = "job_return"
         /\ passes >= 1 => now >= CronNext(sch.s, 0)

\* cron mode: the loop has polled once and sleeps, and no pass has been run
C13_Witness ==
  /\ ~run
  /\ armed
  /\ ~sch.isInt
  /\ pc = "sleep"
  /\ passes = 0

(***************************************************************************)
(* C14: in interval mode with a startup delay of D >= 0 seconds, no run    *)
(* starts while the process sleeps through the delay, also when the job    *)
(* installed before the delay comes due meanwhile, and the first run       *)
(* starts at least D seconds after the schedule was armed (time 0).        *)
(***************************************************************************)
C14_StartupDelay ==
  (~run /\ sch.isInt /\ startupDelay >= 0) =>
    /\ pc = "startup_delay" =>
         (passes = 0 /\ activeRuns = 0 /\ Len(jobs) = 1 /\ now <= wake)
    /\ passes >= 1 => now >= startupDelay
    /\ activeRuns > 0 => start_time >= startupDelay

\* the first run starts at the end of a delay of 90 seconds, 30 seconds
\* after the job installed before the delay came due
C14_Witness ==
  /\ ~run
  /\ sch.isInt
  /\ startupDelay = 90
  /\ pc = "acquire"
  /\ passes = 1
  /\ start_time = 90
  /\ jobs[1].due = 60

(***************************************************************************)
(* C15: when the cron expression has passed the startup validation and     *)
(* its evaluation in schedule_from_cron fails, the process exits with      *)
(* code 1: in scheduled mode the job table is empty only before the        *)
(* schedule is first armed or in a process that has exited with code 1,    *)
(* so the loop never polls with no pending job.                            *)
(***************************************************************************)
BeforeArming == pc \in {"validate_schedule", "validate_delay", "main"}

C15_CronFailureFatal ==
  ~run =>
    /\ jobs = <<>> => (BeforeArming \/ (pc = "exited" /\ exitCode = 1))
    /\ (sch # NoSchedule /\ ~sch.isInt /\ CronNextFails(sch.s)) =>
         /\ BeforeArming \/ (pc = "exited" /\ exitCode = 1)
         /\ passes = 0

\* "0 0 30 2 *" passed the validation, its evaluation failed and the process
\* has exited with code 1
C15_Witness ==
  /\ ~run
  /\ sch # NoSchedule
  /\ ~sch.isInt
  /\ CronSyntaxOK(sch.s)
  /\ CronNextFails(sch.s)
  /\ IsIntLiteral(rawDelay)
  /\ pc = "exited"
  /\ exitCode = 1
  /\ jobs = <<>>

(***************************************************************************)
(* C16: in scheduled mode, whenever the loop sleeps and the pending job    *)
(* is due by the next poll tick (and the pass fits before MaxTime), then,  *)
(* unless a termination request arrives, a pass fired by that job runs     *)
(* every entry of the ConfigSet and leaves a freshly installed job         *)
(* pending; and the process exits only with code 0 after a termination     *)
(* request, or with code 1 on the failure of the cron evaluation.          *)
(***************************************************************************)
DueAtNextTick ==
  /\ ~run
  /\ pc = "sleep"
  /\ Len(jobs) = 1
  /\ jobs[1].due <= wake
  /\ wake + Len(config_files) * RunSecs <= MaxTime

PassRanAndRearmed ==
  /\ pc = "job_return"
  /\ PassComplete
  /\ Len(jobs) = 1
  /\ ~jobs[1].running
  /\ jobs[1].due >= now

ExitsOnlyByFlagOrFatal ==
  (~run /\ pc = "exited") =>
    \/ exitCode = 0 /\ kill_now
    \/ exitCode = 1 /\ passes = 0

C16_LoopLiveness ==
  /\ DueAtNextTick ~> (PassRanAndRearmed \/ kill_now)
  /\ []ExitsOnlyByFlagOrFatal

\* the third pass (the second fired by the job) has run and rearmed, with
\* no termination request
C16_Witness ==
  /\ ~kill_now
  /\ PassRanAndRearmed
  /\ passes = 3

(***************************************************************************)
(* C17 as stated: in each pass start() is called once per entry of the     *)
(* ConfigSet, in order, whether or not earlier entries loaded, and during  *)
(* the run of an entry exactly that entry's log context is attached, none  *)
(* between runs.                                                           *)
(***************************************************************************)
InRun == pc \in InStart \cup {"start"}

\* the runs finished in the current pass are those of the first entries of
\* the ConfigSet, in order, and the run in progress is that of the next one
OncePerEntryInOrder ==
  /\ \A i \in 1..Len(passLog) : passLog[i].id = config_files[i]
  /\ pc = "start_loop" => Len(passLog) = cfgIdx
  /\ InRun => (cfgIdx \in 1..Len(config_files) /\ Len(passLog) = cfgIdx - 1)
  /\ (passes > 0 /\ pc \notin InPass) => PassComplete

C17_ContextPerEntry ==
  /\ OncePerEntryInOrder
  /\ handlers = IF InRun THEN {config_files[cfgIdx]} ELSE {}

(***************************************************************************)
(* C17 amended: in each pass start() is called once per entry of the       *)
(* ConfigSet, in order, whether or not earlier entries loaded; when the    *)
(* ConfigSet has more than one entry, exactly the entry's log context is   *)
(* attached during its run and none between runs; with a single entry no   *)
(* per-configuration context is attached at all; so at most one is         *)
(* attached at any time.                                                   *)
(***************************************************************************)
C17_ContextPerEntryOfSeveral ==
  /\ OncePerEntryInOrder
  /\ Cardinality(handlers) <= 1
  /\ handlers = IF InRun /\ Len(config_files) > 1
                THEN {config_files[cfgIdx]}
                ELSE {}

\* the run of the third entry begins after the second entry failed to load
C17_Witness ==
  /\ Len(config_files) = 3
  /\ pc = "acquire"
  /\ cfgIdx = 3
  /\ Len(passLog) = 2
  /\ ~passLog[2].loaded
  /\ handlers = {3}

(***************************************************************************)
(* C18: when start() has reset its state every counter of stats is 0,      *)
(* whatever the previous run left; no counter is ever negative; and from   *)
(* one step of a run to the next no counter decreases.                     *)
(***************************************************************************)
C18_FreshStats ==
  /\ [](pc = "acquire" => stats = ZeroStats)
  /\ [](\A k \in StatKeys : stats[k] >= 0)
  /\ [][(pc \in InStart /\ pc' \in InStart) =>
         \A k \in StatKeys : stats'[k] >= stats[k]]_vars

\* the run of the second entry begins with zeroed stats after a run that
\* counted
C18_Witness ==
  /\ pc = "acquire"
  /\ cfgIdx = 2
  /\ passLog[1].loaded
  /\ items < MaxItems
  /\ stats = ZeroStats

(***************************************************************************)
(* C19: when configuration acquisition has failed, start() ends with the   *)
(* notifier called with the run's start time, end time, duration, next     *)
(* run, the zeroed stats and the empty summary.                            *)
(***************************************************************************)
C19_FailedRunNotified ==
  (pc = "start_return" /\ ~cfg.loaded) =>
    /\ hook.called
    /\ hook.start_time = start_time
    /\ hook.end_time = end_time
    /\ hook.run_time = end_time - start_time
    /\ hook.next_run = next_run
    /\ hook.stats = ZeroStats
    /\ hook.body = <<>>

(***************************************************************************)
(* C20: with an interval schedule of m >= 1 minutes, the next run computed *)
(* by the rearm at the end of a run is the time the run finished plus m    *)
(* minutes, it is what the notifier receives, and the one job pending      *)
(* after the rearm is due at exactly that time; a job is run only when its *)
(* due time has been reached.                                              *)
(***************************************************************************)
C20_IntervalNextRun ==
  (~run /\ sch.isInt /\ sch.n >= 1) =>
    /\ pc \in {"notify", "start_return"} =>
         /\ end_time = now
         /\ next_run = end_time + sch.n * SecsPerMinute
         /\ Len(jobs) = 1
         /\ jobs[1].due = next_run
         /\ hook.called => hook.next_run = next_run
    /\ (armed /\ passes = 0) => (Len(jobs) = 1 /\ jobs[1].due = next_run_time)
    /\ \A i \in 1..Len(jobs) : jobs[i].running => now >= jobs[i].due

\* the rearm at the end of a run that the job of a 2-minute schedule fired
C20_Witness ==
  /\ ~run
  /\ sch.isInt
  /\ sch.n = 2
  /\ ret = "job_return"
  /\ pc = "notify"
  /\ next_run = now + 2 * SecsPerMinute
  /\ jobs[1].due = next_run

(***************************************************************************)
(* C21: throughout a run, and so at its end, deleted + deleted_contents    *)
(* equals rem_unreg + cleaned_share_limits and tagged is at least          *)
(* tagged_tracker_error + tagged_noHL + updated_share_limits, for every    *)
(* set of enabled stages and all stage results; hence a summary with a     *)
(* deletion line also has an unregistered-removed or a share-limits-       *)
(* cleaned line.                                                           *)
(***************************************************************************)
HasLine(k) == \E i \in 1..Len(stats_summary) : stats_summary[i].key = k

C21_CounterConsistency ==
  /\ stats["deleted"] + stats["deleted_contents"]
       = stats["rem_unreg"] + stats["cleaned_share_limits"]
  /\ stats["tagged"]
       >= stats["tagged_tracker_error"] + stats["tagged_noHL"]
            + stats["updated_share_limits"]
  /\ SummaryBuilt =>
       ((HasLine("deleted") \/ HasLine("deleted_contents")) =>
          (HasLine("rem_unreg") \/ HasLine("cleaned_share_limits")))

\* a finished run in which the unregistered removal deleted a torrent and
\* the share limits deleted another with its contents
C21_Witness ==
  /\ SummaryBuilt
  /\ stats["rem_unreg"] = 1
  /\ stats["cleaned_share_limits"] = 1
  /\ stats["deleted"] = 1
  /\ stats["deleted_contents"] = 1
  /\ HasLine("deleted")
  /\ HasLine("cleaned_share_limits")

(***************************************************************************)
(* C22: in scheduled mode, when the notifier of a run whose configuration  *)
(* loaded is called, the schedule has been rearmed by that run: the job    *)
(* table holds one job, installed at the run's end time and not the job    *)
(* that is executing, and the next run the notifier receives is that       *)
(* job's due time; the notifier is never called before the rearm.          *)
(***************************************************************************)
\* the only job was installed at time t and is not the one being executed
RearmedAt(t) ==
  /\ Len(jobs) = 1
  /\ ~jobs[1].running
  /\ jobs[1].due - jobs[1].period = t

C22_RearmBeforeNotify ==
  ~run =>
    /\ hook.called => (pc = "start_return" /\ cfg.loaded)
    /\ (pc = "notify" \/ hook.called) =>
         /\ end_time = now
         /\ end_time >= start_time
         /\ RearmedAt(end_time)
         /\ next_run = jobs[1].due
    /\ hook.called => hook.next_run = jobs[1].due

\* the notifier has been called in a run fired by the job of a cron schedule
C22_Witness ==
  /\ ~run
  /\ ~sch.isInt
  /\ ret = "job_return"
  /\ pc = "start_return"
  /\ hook.called
  /\ RearmedAt(end_time)
  /\ hook.next_run = jobs[1].due

(***************************************************************************)
(* C23: killer.kill_now is read only by the loop's while test.  A request  *)
(* that arrives during the startup delay, or after the while test and      *)
(* before run_pending collects the due jobs, does not prevent the pass     *)
(* that is owed (start_loop(True) after the delay; the pass of a job that  *)
(* is due): exactly that one pass begins after the request, it runs every  *)
(* entry and notifies the loaded ones, and the loop exits with code 0 at   *)
(* its next while test.  With no job due, no pass begins.                  *)
(***************************************************************************)
LateRequest == req.made /\ req.at \in {"startup_delay", "run_pending"}

\* the passes that the request leaves to begin
PassesOwed == IF req.at = "startup_delay" \/ req.due THEN 1 ELSE 0

PassesSinceRequest == passes - req.passes

C23_FlagReadAtLoopHead ==
  LateRequest =>
    /\ PassesSinceRequest <= PassesOwed
    /\ pc \in {"loop_head", "end", "exited"} =>
         /\ PassesSinceRequest = PassesOwed
         /\ req.ran <=> PassesOwed = 1
         /\ PassesOwed = 1 =>
              /\ PassComplete
              /\ \A i \in 1..Len(passLog) :
                   passLog[i].loaded => passLog[i].hooked
    /\ pc = "exited" => exitCode = 0

\* the request arrived between the while test and the collection of a due
\* job; the job's pass ran both entries and the process has exited
C23_Witness ==
  /\ req.made
  /\ req.at = "run_pending"
  /\ req.due
  /\ req.ran
  /\ PassesSinceRequest = 1
  /\ Len(passLog) = 2
  /\ passLog[2].hooked
  /\ pc = "exited"
  /\ exitCode = 0

\* the request arrived during the startup delay; the first pass ran after
\* the delay and the process has exited
C23_DelayCase ==
  /\ req.made
  /\ req.at = "startup_delay"
  /\ req.ran
  /\ passes = 1
  /\ pc = "exited"
  /\ exitCode = 0

====
